---- MODULE Spec2Model ----
(***************************************************************************)
(* A model of deel/lip/utils.py: the process-wide registry of custom       *)
(* objects and the three model loaders built on it, the fan-in/fan-out     *)
(* helper _compute_fans, and the empirical Lipschitz constant estimator    *)
(* (evaluate_lip_const and its generator form).                            *)
(*                                                                         *)
(* Three specifications share the module:                                  *)
(*   Spec      registrations and loader calls, in any order;               *)
(*   SpecFans  one call of _compute_fans on every bounded input;           *)
(*   SpecLip   one call of an estimator, statement by statement.           *)
(***************************************************************************)
EXTENDS Integers, Sequences, FiniteSets, TLC

VARIABLES
    CUSTOM_OBJECTS,  \* utils.py:11, the module-level dict
    lastOp,          \* the operation that ran last
    regArg,          \* the argument f of the last deel_export
    regRet,          \* what the last deel_export returned
    kerasCall,       \* the last call a loader made into the framework
    registered,      \* history: per name, the callable registered last
    firstReg,        \* history: per name, the callable registered first
    fshape,          \* _compute_fans: the argument shape
    fformat,         \* _compute_fans: the argument data_format, or Omitted
    fret,            \* _compute_fans: how the call ended
    lpc,             \* estimator: the statement to run next
    entry,           \* estimator: the entry point that was called
    args,            \* estimator: the arguments of the call
    gen,             \* estimator: the batches the producer has left
    pulls,           \* estimator: batches pulled from the producer
    frame,           \* estimator: the parameters of evaluate_lip_const
    y_pred,          \* evaluate_lip_const locals
    noise,           \* the array K.random_uniform returned
    x_var,
    y_pred_var,
    lip_cst,
    stdout,          \* the lines printed
    result,          \* the value returned to the caller
    error,           \* the exception that ended the call, if any
    log              \* the framework calls and effects, in order

lipVars == <<lpc, entry, args, gen, pulls, frame, y_pred, noise, x_var,
             y_pred_var, lip_cst, stdout, result, error, log>>

fanVars == <<fshape, fformat, fret>>

regVars == <<CUSTOM_OBJECTS, lastOp, regArg, regRet, kerasCall, registered, firstReg>>

(***************************************************************************)
(* Bounds of the registry model.                                           *)
(***************************************************************************)
Names == {"f", "g"}
NumIds == 2

\* A callable is an object with a __name__; id tells apart two objects that
\* carry the same __name__.
Callables == [name : Names, id : 1..NumIds]

NoCallable == [name |-> "", id |-> 0]

EmptyDict == [n \in {} |-> NoCallable]

\* The objects a caller passes in custom_objects: objects of the caller's
\* own (id 0), none of them one that was registered.
CallerObjects == [name : Names, id : {0}]

\* Every dict a caller passes (a value need not be stored under its own
\* __name__: a caller may pass any mapping).
Dicts == UNION {[D -> CallerObjects] : D \in SUBSET Names}

\* The optional argument custom_objects: None, or a dict.
NoneArg == [isNone |-> TRUE, items |-> EmptyDict]

DictArg(d) == [isNone |-> FALSE, items |-> d]

CustomObjectsArgs == {NoneArg} \cup {DictArg(d) : d \in Dicts}

Loaders == {"load_model", "model_from_json", "model_from_yaml"}

\* d[key] = value
DictSet(d, key, value) ==
    [n \in DOMAIN d \cup {key} |-> IF n = key THEN value ELSE d[n]]

\* d.update(other)
DictUpdate(d, other) ==
    [n \in DOMAIN d \cup DOMAIN other |->
        IF n \in DOMAIN other THEN other[n] ELSE d[n]]

\* A registration that keeps the entry a name already has.
deel_export_keep_first(registry, f) ==
    [registry |-> IF f.name \in DOMAIN registry
                  THEN registry
                  ELSE DictSet(registry, f.name, f),
     ret |-> f]

\* deel_export(f): CUSTOM_OBJECTS[f.__name__] = f; return f
deel_export(registry, f) ==
    [registry |-> DictSet(registry, f.name, f), ret |-> f]

\* A merge that drops the registry as soon as the caller passes a mapping.
EffectiveObjects_overrides_only(registry, custom_objects) ==
    IF custom_objects.isNone THEN registry ELSE custom_objects.items

\* A merge in which the registry wins a name collision.
EffectiveObjects_registry_wins(registry, custom_objects) ==
    IF custom_objects.isNone
    THEN registry
    ELSE DictUpdate(custom_objects.items, registry)

\* deel_custom_objects = CUSTOM_OBJECTS.copy()
\* if custom_objects is not None: deel_custom_objects.update(custom_objects)
EffectiveObjects(registry, custom_objects) ==
    IF custom_objects.isNone
    THEN registry
    ELSE DictUpdate(registry, custom_objects.items)

\* A loader that updates the registry itself instead of a copy of it.
RegistryAfterLoad_no_copy(registry, custom_objects) ==
    EffectiveObjects(registry, custom_objects)

\* The registry after a loader call: the update is applied to the copy made
\* by CUSTOM_OBJECTS.copy(), so the module-level dict is what it was.
RegistryAfterLoad(registry, custom_objects) == registry

NoCall == [loader |-> "", arg |-> NoneArg, custom_objects |-> EmptyDict,
           compile |-> "n/a", outcome |-> "none"]

\* What the framework's routine does with the call is the framework's: it
\* returns a model or raises, and the loader hands either to its caller.
FrameworkOutcomes == {"model", "raised"}

RegInit ==
    /\ CUSTOM_OBJECTS = EmptyDict
    /\ lastOp = "none"
    /\ regArg = NoCallable
    /\ regRet = NoCallable
    /\ kerasCall = NoCall
    /\ registered = EmptyDict
    /\ firstReg = EmptyDict

DeelExport(f) ==
    LET r == deel_export(CUSTOM_OBJECTS, f) IN
    /\ CUSTOM_OBJECTS' = r.registry
    /\ regArg' = f
    /\ regRet' = r.ret
    /\ lastOp' = "deel_export"
    /\ registered' = DictSet(registered, f.name, f)
    /\ firstReg' = IF f.name \in DOMAIN firstReg
                   THEN firstReg
                   ELSE DictSet(firstReg, f.name, f)
    /\ UNCHANGED kerasCall

Load(loader, custom_objects, compile, outcome) ==
    /\ kerasCall' = [loader |-> loader,
                     arg |-> custom_objects,
                     custom_objects |-> EffectiveObjects(CUSTOM_OBJECTS, custom_objects),
                     compile |-> compile,
                     outcome |-> outcome]
    /\ CUSTOM_OBJECTS' = RegistryAfterLoad(CUSTOM_OBJECTS, custom_objects)
    /\ lastOp' = loader
    /\ UNCHANGED <<regArg, regRet, registered, firstReg>>

\* load_model(filepath, custom_objects=None, compile=True)
LoadModel ==
    \E co \in CustomObjectsArgs, c \in {"True", "False"}, o \in FrameworkOutcomes :
        Load("load_model", co, c, o)

\* model_from_json(json_string, custom_objects=None)
ModelFromJson ==
    \E co \in CustomObjectsArgs, o \in FrameworkOutcomes :
        Load("model_from_json", co, "n/a", o)

\* model_from_yaml(yaml_string, custom_objects=None)
ModelFromYaml ==
    \E co \in CustomObjectsArgs, o \in FrameworkOutcomes :
        Load("model_from_yaml", co, "n/a", o)

Register == \E f \in Callables : DeelExport(f)

(***************************************************************************)
(* _compute_fans                                                           *)
(***************************************************************************)
MaxDim == 3
MaxRank == 6

RECURSIVE SeqsUpTo(_, _)
\* The sequences over S of length at most n.
SeqsUpTo(S, n) ==
    IF n = 0
    THEN {<<>>}
    ELSE LET shorter == SeqsUpTo(S, n - 1) IN
         shorter \cup {Append(s, d) : s \in {t \in shorter : Len(t) = n - 1}, d \in S}

\* The shapes the documentation works out.
ExampleShapes == {<<4, 8>>, <<3, 3, 4, 8>>}

Shapes == SeqsUpTo(1..MaxDim, MaxRank) \cup ExampleShapes

Omitted == "<omitted>"

DataFormats == {"channels_first", "channels_last", "invalid-layout", "NCHW"}

DataFormatArgs == DataFormats \cup {Omitted}

\* The parameter's default: data_format="channels_last".
BoundDataFormat(arg) == IF arg = Omitted THEN "channels_last" ELSE arg

\* Python's s[i], i counted from 0, a negative i from the end.
PyIndex(s, i) == IF i >= 0 THEN s[i + 1] ELSE s[Len(s) + i + 1]

\* Python's s[a:] for a >= 0.
PySliceFrom(s, a) ==
    IF a >= Len(s) THEN <<>> ELSE SubSeq(s, a + 1, Len(s))

\* Python's s[:b] for b < 0.
PySliceTo(s, b) ==
    IF Len(s) + b <= 0 THEN <<>> ELSE SubSeq(s, 1, Len(s) + b)

RECURSIVE np_prod(_)
\* np.prod of a sequence of integers; the empty product is 1.
np_prod(s) == IF s = <<>> THEN 1 ELSE Head(s) * np_prod(Tail(s))

\* The numbers _compute_fans returns: an integer, or np.sqrt of one.
IntNum(v) == [sort |-> "int", n |-> v]

np_sqrt(v) == [sort |-> "sqrt", n |-> v]

NoNum == [sort |-> "none", n |-> 0]

FansReturn(fan_in, fan_out) ==
    [kind |-> "return", fan_in |-> fan_in, fan_out |-> fan_out, message |-> <<>>]

\* raise ValueError("Invalid data_format: " + data_format)
FansValueError(data_format) ==
    [kind |-> "ValueError", fan_in |-> NoNum, fan_out |-> NoNum,
     message |-> <<"Invalid data_format: ", data_format>>]

NotCalled == [kind |-> "not called", fan_in |-> NoNum, fan_out |-> NoNum, message |-> <<>>]

\* A helper that uses the channels_first formula for both layouts.
compute_fans_one_layout(shape, data_format) ==
    IF Len(shape) = 2
    THEN FansReturn(IntNum(PyIndex(shape, 0)), IntNum(PyIndex(shape, 1)))
    ELSE IF Len(shape) \in {3, 4, 5}
    THEN IF data_format \in {"channels_first", "channels_last"}
         THEN LET receptive_field_size == np_prod(PySliceFrom(shape, 2)) IN
              FansReturn(IntNum(PyIndex(shape, 1) * receptive_field_size),
                         IntNum(PyIndex(shape, 0) * receptive_field_size))
         ELSE FansValueError(data_format)
    ELSE FansReturn(np_sqrt(np_prod(shape)), np_sqrt(np_prod(shape)))

\* A helper that checks data_format before it looks at the rank.
compute_fans_validate_first(shape, data_format) ==
    IF data_format \notin {"channels_first", "channels_last"}
    THEN FansValueError(data_format)
    ELSE IF Len(shape) = 2
    THEN FansReturn(IntNum(PyIndex(shape, 0)), IntNum(PyIndex(shape, 1)))
    ELSE IF Len(shape) \in {3, 4, 5}
    THEN IF data_format = "channels_first"
         THEN LET receptive_field_size == np_prod(PySliceFrom(shape, 2)) IN
              FansReturn(IntNum(PyIndex(shape, 1) * receptive_field_size),
                         IntNum(PyIndex(shape, 0) * receptive_field_size))
         ELSE LET receptive_field_size == np_prod(PySliceTo(shape, -2)) IN
              FansReturn(IntNum(PyIndex(shape, -2) * receptive_field_size),
                         IntNum(PyIndex(shape, -1) * receptive_field_size))
    ELSE FansReturn(np_sqrt(np_prod(shape)), np_sqrt(np_prod(shape)))

\* _compute_fans(shape, data_format)
_compute_fans(shape, data_format) ==
    IF Len(shape) = 2
    THEN FansReturn(IntNum(PyIndex(shape, 0)), IntNum(PyIndex(shape, 1)))
    ELSE IF Len(shape) \in {3, 4, 5}
    THEN IF data_format = "channels_first"
         THEN LET receptive_field_size == np_prod(PySliceFrom(shape, 2)) IN
              FansReturn(IntNum(PyIndex(shape, 1) * receptive_field_size),
                         IntNum(PyIndex(shape, 0) * receptive_field_size))
         ELSE IF data_format = "channels_last"
         THEN LET receptive_field_size == np_prod(PySliceTo(shape, -2)) IN
              FansReturn(IntNum(PyIndex(shape, -2) * receptive_field_size),
                         IntNum(PyIndex(shape, -1) * receptive_field_size))
         ELSE FansValueError(data_format)
    ELSE FansReturn(np_sqrt(np_prod(shape)), np_sqrt(np_prod(shape)))

FansIdle ==
    /\ fshape = <<>>
    /\ fformat = Omitted
    /\ fret = NotCalled

FansInit ==
    /\ fshape \in Shapes
    /\ fformat \in DataFormatArgs
    /\ fret = NotCalled

ComputeFans ==
    /\ fret = NotCalled
    /\ fret' = _compute_fans(fshape, BoundDataFormat(fformat))
    /\ UNCHANGED <<fshape, fformat>>

(***************************************************************************)
(* Floating point.  The estimator computes on floating-point tensors; the  *)
(* model keeps the structure of a binary floating-point format (a          *)
(* significand of MantBits bits, round to nearest with ties to even, a     *)
(* largest finite value, infinities and NaN) in a width TLC can enumerate. *)
(* A finite value is an integer count of the smallest positive value.      *)
(***************************************************************************)
MantBits == 3
MaxExp == 8

RECURSIVE Pow2(_)
Pow2(e) == IF e = 0 THEN 1 ELSE 2 * Pow2(e - 1)

RECURSIVE BitLen(_)
\* The number of binary digits of n >= 0.
BitLen(n) == IF n = 0 THEN 0 ELSE 1 + BitLen(n \div 2)

MaxFinite == (Pow2(MantBits) - 1) * Pow2(MaxExp)

PosInf == MaxFinite + 1

NegInf == -PosInf

NaN == MaxFinite + 2

IsNaN(a) == a = NaN

IsInf(a) == a = PosInf \/ a = NegInf

IsFinite(a) == ~IsNaN(a) /\ ~IsInf(a)

Abs(n) == IF n < 0 THEN -n ELSE n

Sign(n) == IF n < 0 THEN -1 ELSE 1

\* The distance between neighbouring values of the format at magnitude q.
Spacing(q) == IF q < Pow2(MantBits) THEN 1 ELSE Pow2(BitLen(q) - MantBits)

\* n is a finite value of the format.
Representable(n) ==
    /\ Abs(n) <= MaxFinite
    /\ Abs(n) % Spacing(Abs(n)) = 0

\* The value of the format nearest to num/den (den > 0), ties to the even
\* significand; beyond the largest finite value, the infinity of its sign.
RoundQ(num, den) ==
    LET a == Abs(num)
        sp == Spacing(a \div den)
        d == den * sp
        lo == a \div d
        rem == a % d
        m == IF 2 * rem < d THEN lo
             ELSE IF 2 * rem > d THEN lo + 1
             ELSE IF lo % 2 = 0 THEN lo ELSE lo + 1
    IN  IF m * sp > MaxFinite
        THEN Sign(num) * PosInf
        ELSE Sign(num) * m * sp

FlNeg(a) == IF IsNaN(a) THEN NaN ELSE -a

FlAdd(a, b) ==
    IF IsNaN(a) \/ IsNaN(b) THEN NaN
    ELSE IF IsInf(a) /\ IsInf(b) THEN (IF a = b THEN a ELSE NaN)
    ELSE IF IsInf(a) THEN a
    ELSE IF IsInf(b) THEN b
    ELSE RoundQ(a + b, 1)

FlSub(a, b) == FlAdd(a, FlNeg(b))

FlMul(a, b) ==
    IF IsNaN(a) \/ IsNaN(b) THEN NaN
    ELSE IF IsInf(a) \/ IsInf(b)
    THEN (IF a = 0 \/ b = 0 THEN NaN ELSE Sign(a) * Sign(b) * PosInf)
    ELSE RoundQ(a * b, 1)

FlDiv(a, b) ==
    IF IsNaN(a) \/ IsNaN(b) THEN NaN
    ELSE IF IsInf(a) THEN (IF IsInf(b) THEN NaN ELSE Sign(a) * Sign(b) * PosInf)
    ELSE IF IsInf(b) THEN 0
    ELSE IF b = 0 THEN (IF a = 0 THEN NaN ELSE Sign(a) * PosInf)
    ELSE RoundQ(Sign(b) * a, Abs(b))

\* The integer part of the square root of a >= 0.
ISqrt(a) == CHOOSE s \in 0..a : s * s <= a /\ a < (s + 1) * (s + 1)

\* The value of the format nearest to the square root of a finite a >= 0.
RoundSqrt(a) ==
    LET s == ISqrt(a)
        lo == (s \div Spacing(s)) * Spacing(s)
        hi == lo + Spacing(lo)
    IN  IF lo * lo = a THEN lo
        ELSE IF 4 * a < (lo + hi) * (lo + hi) THEN lo
        ELSE IF 4 * a > (lo + hi) * (lo + hi) THEN hi
        ELSE IF (lo \div Spacing(lo)) % 2 = 0 THEN lo ELSE hi

\* K.sqrt: the argument is clipped to [0, inf] before the square root.
K_sqrt(a) ==
    IF IsNaN(a) THEN NaN
    ELSE IF a = PosInf THEN PosInf
    ELSE IF a < 0 THEN 0
    ELSE RoundSqrt(a)

(***************************************************************************)
(* The estimator.  A batch x is a sequence of samples, a sample a sequence *)
(* of floating-point features; axis 0 is the batch axis.                   *)
(***************************************************************************)
MaxBatch == 2

\* The numbers of features per sample.  A sum over one or two terms does
\* not depend on the order the framework reduces in.
Widths == {1, 2}

XVals == {0, 8}

XArrays == UNION {[1..b -> [1..w -> XVals]] : b \in 1..MaxBatch, w \in Widths}

NoArray == <<>>

\* The models: y = k * x for a floating-point constant k.
Models == {1, -2, 3}

EpsVals == {2, 3}

Seeds == {"None", "42"}

\* Elementwise operations on arrays of one shape.
ArrAdd(a, b) == [i \in DOMAIN a |-> [j \in DOMAIN a[i] |-> FlAdd(a[i][j], b[i][j])]]

ArrSub(a, b) == [i \in DOMAIN a |-> [j \in DOMAIN a[i] |-> FlSub(a[i][j], b[i][j])]]

K_square(a) == [i \in DOMAIN a |-> [j \in DOMAIN a[i] |-> FlMul(a[i][j], a[i][j])]]

RECURSIVE FlSum(_)
FlSum(s) == IF s = <<>> THEN 0 ELSE FlAdd(Head(s), FlSum(Tail(s)))

\* K.sum(a, axis=range(1, len(a.shape))): one sum per sample.
K_sum(a) == [i \in DOMAIN a |-> FlSum(a[i])]

\* model.predict(x) of the model y = k * x.
Predict(k, x) == [i \in DOMAIN x |-> [j \in DOMAIN x[i] |-> FlMul(k, x[i][j])]]

\* The values K.random_uniform(minval=eps * 0.25, maxval=eps) can draw.
Offsets(eps) == {v \in 0..eps : Representable(v) /\ 4 * v >= eps /\ v < eps}

\* K.random_uniform(shape=x.shape, ...): one draw per element.
UniformDraws(x, eps) ==
    [DOMAIN x -> [DOMAIN x[1] -> Offsets(eps)]]

RECURSIVE SeqMax(_)
SeqMax(s) ==
    IF Len(s) = 1 THEN Head(s)
    ELSE LET m == SeqMax(Tail(s)) IN IF Head(s) > m THEN Head(s) ELSE m

\* K.max over the batch.  A comparison with NaN is false, so whether a NaN
\* among the elements reaches the result depends on the order in which the
\* framework's reduction meets it: either outcome can be produced.
K_max(s) ==
    LET nums == SelectSeq(s, LAMBDA v : ~IsNaN(v)) IN
    IF nums = s THEN {SeqMax(s)}
    ELSE IF nums = <<>> THEN {NaN}
    ELSE {NaN, SeqMax(nums)}

\* ndfx / ndx, per sample.
Ratios(ndfx, ndx) == [i \in DOMAIN ndx |-> FlDiv(ndfx[i], ndx[i])]

\* An estimate that leaves out the square root.
LipCstOutcomes_no_sqrt(x, xv, yp, ypv) ==
    LET dx == ArrSub(x, xv)
        dfx == ArrSub(yp, ypv)
        ndx == K_sum(K_square(dx))
        ndfx == K_sum(K_square(dfx))
    IN  K_max(Ratios(ndfx, ndx))

\* Lines 151-155: the values lip_cst can take.
LipCstOutcomes(x, xv, yp, ypv) ==
    LET dx == ArrSub(x, xv)
        dfx == ArrSub(yp, ypv)
        ndx == K_sum(K_square(dx))
        ndfx == K_sum(K_square(dfx))
    IN  {K_sqrt(m) : m \in K_max(Ratios(ndfx, ndx))}

\* "lip cst: %.3f" % lip_cst.  A finite value of the format is a whole
\* number, so its three decimals are zeros.
FormatLine(v) ==
    [text |-> "lip cst: ",
     special |-> IF IsNaN(v) THEN "nan"
                 ELSE IF v = PosInf THEN "inf"
                 ELSE IF v = NegInf THEN "-inf" ELSE "",
     whole |-> IF IsFinite(v) THEN v ELSE 0,
     thousandths |-> 0]

\* A log entry: a call into the framework, an output line or the return.
Event(op, arr) == [op |-> op, arr |-> arr]

\* Statement order with the progress line ahead of the second forward pass.
StatementAfter_print_early(pc) ==
    CASE pc = "predict1" -> "noise"
      [] pc = "noise" -> "print"
      [] pc = "print" -> "predict2"
      [] pc = "predict2" -> "lip_cst"
      [] pc = "lip_cst" -> "return"
      [] pc = "return" -> "done"

\* The statements of evaluate_lip_const, in the order of lines 144-157.
StatementAfter(pc) ==
    CASE pc = "predict1" -> "noise"
      [] pc = "noise" -> "predict2"
      [] pc = "predict2" -> "lip_cst"
      [] pc = "lip_cst" -> "print"
      [] pc = "print" -> "return"
      [] pc = "return" -> "done"

(***************************************************************************)
(* The producer of the generator form.  A batch is a tuple of arrays.      *)
(***************************************************************************)
GenXArrays == {a \in XArrays : Len(a) = 1}

LabelArrays == {<<<<0>>>>, <<<<8>>>>}

Batches ==
    {<<>>}
    \cup {<<x>> : x \in GenXArrays}
    \cup {<<x, y>> : x \in GenXArrays, y \in LabelArrays}
    \cup {<<x, y, w>> : x \in GenXArrays, y \in LabelArrays, w \in LabelArrays}
    \cup {<<x, y, w, w>> : x \in GenXArrays, y \in LabelArrays, w \in LabelArrays}

LaterBatch == <<<<<<0>>>>, <<<<0>>>>, <<<<0>>>>>>

Generators == {<<>>} \cup {<<b>> : b \in Batches} \cup {<<b, LaterBatch>> : b \in Batches}

NoFrame == [model |-> 0, x |-> NoArray, eps |-> 0, seed |-> "None"]

NoArgs == [model |-> 0, x |-> NoArray, generator |-> <<>>, eps |-> 0, seed |-> "None"]

\* An unpacking that takes what it needs from a tuple of any length.
Unpack3_lenient(batch) ==
    IF Len(batch) >= 1
    THEN [ok |-> TRUE, x |-> batch[1], error |-> ""]
    ELSE [ok |-> FALSE, x |-> NoArray, error |-> "ValueError"]

\* An unpacking that binds the second component of the tuple to x.
Unpack3_takes_y(batch) ==
    IF Len(batch) = 3
    THEN [ok |-> TRUE, x |-> batch[2], error |-> ""]
    ELSE [ok |-> FALSE, x |-> NoArray, error |-> "ValueError"]

\* x, y, _ = batch: a tuple of exactly three components, or ValueError.
Unpack3(batch) ==
    IF Len(batch) = 3
    THEN [ok |-> TRUE, x |-> batch[1], error |-> ""]
    ELSE [ok |-> FALSE, x |-> NoArray, error |-> "ValueError"]

LipIdle ==
    /\ lpc = "idle"
    /\ entry = "none"
    /\ args = NoArgs
    /\ gen = <<>>
    /\ pulls = 0
    /\ frame = NoFrame
    /\ y_pred = NoArray
    /\ noise = NoArray
    /\ x_var = NoArray
    /\ y_pred_var = NoArray
    /\ lip_cst = 0
    /\ stdout = <<>>
    /\ result = [returned |-> FALSE, value |-> 0]
    /\ error = ""
    /\ log = <<>>

\* A call of evaluate_lip_const(model, x, eps, seed).
CallDirect ==
    /\ lpc = "idle"
    /\ \E m \in Models, x \in XArrays, e \in EpsVals, sd \in Seeds :
         /\ args' = [model |-> m, x |-> x, generator |-> <<>>, eps |-> e, seed |-> sd]
         /\ frame' = [model |-> m, x |-> x, eps |-> e, seed |-> sd]
    /\ entry' = "evaluate_lip_const"
    /\ lpc' = "predict1"
    /\ UNCHANGED <<gen, pulls, y_pred, noise, x_var, y_pred_var, lip_cst,
                   stdout, result, error, log>>

\* A call of evaluate_lip_const_gen(model, generator, eps, seed).
CallGen ==
    /\ lpc = "idle"
    /\ \E m \in Models, g \in Generators, e \in EpsVals, sd \in Seeds :
         /\ args' = [model |-> m, x |-> NoArray, generator |-> g, eps |-> e, seed |-> sd]
         /\ gen' = g
    /\ entry' = "evaluate_lip_const_gen"
    /\ lpc' = "send"
    /\ UNCHANGED <<pulls, frame, y_pred, noise, x_var, y_pred_var, lip_cst,
                   stdout, result, error, log>>

\* Line 124-125: x, y, _ = generator.send(None), then the call of
\* evaluate_lip_const(model, x, eps, seed=seed).
GenSend ==
    /\ lpc = "send"
    /\ IF gen = <<>>
       THEN /\ error' = "StopIteration"
            /\ lpc' = "raised"
            /\ UNCHANGED <<gen, pulls, frame>>
       ELSE LET u == Unpack3(Head(gen)) IN
            /\ gen' = Tail(gen)
            /\ pulls' = pulls + 1
            /\ IF u.ok
               THEN /\ frame' = [model |-> args.model, x |-> u.x,
                                 eps |-> args.eps, seed |-> args.seed]
                    /\ lpc' = "predict1"
                    /\ error' = ""
               ELSE /\ error' = u.error
                    /\ lpc' = "raised"
                    /\ UNCHANGED frame
    /\ UNCHANGED <<entry, args, y_pred, noise, x_var, y_pred_var, lip_cst,
                   stdout, result, log>>

\* Line 144: y_pred = model.predict(x)
Predict1 ==
    /\ lpc = "predict1"
    /\ y_pred' = Predict(frame.model, frame.x)
    /\ log' = Append(log, Event("predict", frame.x))
    /\ lpc' = StatementAfter(lpc)
    /\ UNCHANGED <<entry, args, gen, pulls, frame, noise, x_var, y_pred_var,
                   lip_cst, stdout, result, error>>

\* Lines 147-149: x_var = x + K.random_uniform(...)
Noise ==
    /\ lpc = "noise"
    /\ \E offs \in UniformDraws(frame.x, frame.eps) :
         /\ noise' = offs
         /\ x_var' = ArrAdd(frame.x, offs)
         /\ log' = Append(log, Event("random_uniform", offs))
    /\ lpc' = StatementAfter(lpc)
    /\ UNCHANGED <<entry, args, gen, pulls, frame, y_pred, y_pred_var,
                   lip_cst, stdout, result, error>>

\* Line 150: y_pred_var = model.predict(x_var)
Predict2 ==
    /\ lpc = "predict2"
    /\ y_pred_var' = Predict(frame.model, x_var)
    /\ log' = Append(log, Event("predict", x_var))
    /\ lpc' = StatementAfter(lpc)
    /\ UNCHANGED <<entry, args, gen, pulls, frame, y_pred, noise, x_var,
                   lip_cst, stdout, result, error>>

\* Lines 151-155: dx, dfx, ndx, ndfx, lip_cst
LipCst ==
    /\ lpc = "lip_cst"
    /\ \E v \in LipCstOutcomes(frame.x, x_var, y_pred, y_pred_var) :
         lip_cst' = v
    /\ log' = Append(log, Event("lip_cst", NoArray))
    /\ lpc' = StatementAfter(lpc)
    /\ UNCHANGED <<entry, args, gen, pulls, frame, y_pred, noise, x_var,
                   y_pred_var, stdout, result, error>>

\* Line 156: print("lip cst: %.3f" % lip_cst)
PrintLine ==
    /\ lpc = "print"
    /\ stdout' = Append(stdout, FormatLine(lip_cst))
    /\ log' = Append(log, Event("print", NoArray))
    /\ lpc' = StatementAfter(lpc)
    /\ UNCHANGED <<entry, args, gen, pulls, frame, y_pred, noise, x_var,
                   y_pred_var, lip_cst, result, error>>

\* Line 157: return lip_cst
Return ==
    /\ lpc = "return"
    /\ result' = [returned |-> TRUE, value |-> lip_cst]
    /\ log' = Append(log, Event("return", NoArray))
    /\ lpc' = StatementAfter(lpc)
    /\ UNCHANGED <<entry, args, gen, pulls, frame, y_pred, noise, x_var,
                   y_pred_var, lip_cst, stdout, error>>

(***************************************************************************)
(* The specifications.                                                     *)
(***************************************************************************)
vars == <<regVars, fanVars, lipVars>>

Init == RegInit /\ FansIdle /\ LipIdle

Next ==
    \/ Register /\ UNCHANGED <<fanVars, lipVars>>
    \/ LoadModel /\ UNCHANGED <<fanVars, lipVars>>
    \/ ModelFromJson /\ UNCHANGED <<fanVars, lipVars>>
    \/ ModelFromYaml /\ UNCHANGED <<fanVars, lipVars>>

Spec == Init /\ [][Next]_vars

InitFans == RegInit /\ FansInit /\ LipIdle

NextFans == ComputeFans /\ UNCHANGED <<regVars, lipVars>>

SpecFans == InitFans /\ [][NextFans]_vars

InitLip == RegInit /\ FansIdle /\ LipIdle

NextLip ==
    \/ CallDirect /\ UNCHANGED <<regVars, fanVars>>
    \/ CallGen /\ UNCHANGED <<regVars, fanVars>>
    \/ GenSend /\ UNCHANGED <<regVars, fanVars>>
    \/ Predict1 /\ UNCHANGED <<regVars, fanVars>>
    \/ Noise /\ UNCHANGED <<regVars, fanVars>>
    \/ Predict2 /\ UNCHANGED <<regVars, fanVars>>
    \/ LipCst /\ UNCHANGED <<regVars, fanVars>>
    \/ PrintLine /\ UNCHANGED <<regVars, fanVars>>
    \/ Return /\ UNCHANGED <<regVars, fanVars>>

SpecLip == InitLip /\ [][NextLip]_vars

(***************************************************************************)
(* The registry and the loaders.                                           *)
(***************************************************************************)
\* The caller's overrides of the last loader call, as a dict.
Overrides == IF kerasCall.arg.isNone THEN EmptyDict ELSE kerasCall.arg.items

\* C1: after a registration of f under n, and whatever is registered under
\* other names afterwards, a call of any of the three loaders whose
\* custom_objects is None or has no entry for n hands the framework a
\* mapping that holds f under n.
C1_RegisteredReachesFramework ==
    lastOp \in Loaders =>
        \A n \in DOMAIN registered :
            n \notin DOMAIN Overrides =>
                /\ n \in DOMAIN kerasCall.custom_objects
                /\ kerasCall.custom_objects[n] = registered[n]

C1_Witness ==
    /\ lastOp = "model_from_yaml"
    /\ DOMAIN registered = {"f", "g"}
    /\ regArg.name = "g"
    /\ ~kerasCall.arg.isNone
    /\ DOMAIN Overrides = {"g"}
    /\ kerasCall.custom_objects["f"] = registered["f"]

\* C2: the mapping a loader hands the framework is the registry overlaid
\* with the caller's mapping: a name in both carries the caller's value, a
\* name in one of them carries that one's value, and there is no other name.
C2_OverlayCallerWins ==
    lastOp \in Loaders =>
        /\ kerasCall.loader = lastOp
        /\ DOMAIN kerasCall.custom_objects = DOMAIN CUSTOM_OBJECTS \cup DOMAIN Overrides
        /\ \A n \in DOMAIN kerasCall.custom_objects :
              kerasCall.custom_objects[n] =
                  IF n \in DOMAIN Overrides THEN Overrides[n] ELSE CUSTOM_OBJECTS[n]

C2_Witness ==
    /\ lastOp = "load_model"
    /\ DOMAIN CUSTOM_OBJECTS = {"f", "g"}
    /\ DOMAIN Overrides = {"f"}
    /\ Overrides["f"] # CUSTOM_OBJECTS["f"]
    /\ kerasCall.custom_objects["f"] = Overrides["f"]
    /\ kerasCall.custom_objects["g"] = CUSTOM_OBJECTS["g"]

\* C3: the registry starts empty; a step that changes it is a registration;
\* a loader call, whether the framework returns or raises, leaves it as it
\* was; and no step removes a name from it.
C3_RegistryOnlyGrowsByRegistration ==
    /\ CUSTOM_OBJECTS = EmptyDict
    /\ [][/\ CUSTOM_OBJECTS' # CUSTOM_OBJECTS => lastOp' = "deel_export"
          /\ lastOp' \in Loaders => CUSTOM_OBJECTS' = CUSTOM_OBJECTS
          /\ DOMAIN CUSTOM_OBJECTS \subseteq DOMAIN CUSTOM_OBJECTS']_vars

C3_Witness ==
    /\ lastOp \in Loaders
    /\ kerasCall.outcome = "raised"
    /\ \E n \in DOMAIN CUSTOM_OBJECTS \cap DOMAIN Overrides :
          /\ CUSTOM_OBJECTS[n] = registered[n]
          /\ kerasCall.custom_objects[n] # CUSTOM_OBJECTS[n]

\* C4: a registration returns the callable it was given and stores it under
\* its name, replacing what the name held, and leaves every other entry as
\* it was; so the registry always holds, per name, the callable registered
\* last, and a loader call without an override for the name uses it.
C4_RegistrationStoresAndReturns ==
    /\ [][lastOp' = "deel_export" =>
            /\ regRet' = regArg'
            /\ regArg'.name \in DOMAIN CUSTOM_OBJECTS'
            /\ CUSTOM_OBJECTS'[regArg'.name] = regArg'
            /\ DOMAIN CUSTOM_OBJECTS' = DOMAIN CUSTOM_OBJECTS \cup {regArg'.name}
            /\ \A n \in DOMAIN CUSTOM_OBJECTS \ {regArg'.name} :
                  CUSTOM_OBJECTS'[n] = CUSTOM_OBJECTS[n]]_vars
    /\ [](/\ CUSTOM_OBJECTS = registered
          /\ lastOp \in Loaders =>
                \A n \in DOMAIN registered \ DOMAIN Overrides :
                    kerasCall.custom_objects[n] = registered[n])

C4_Witness ==
    /\ lastOp \in Loaders
    /\ \E n \in DOMAIN registered \ DOMAIN Overrides :
          /\ firstReg[n] # registered[n]
          /\ kerasCall.custom_objects[n] = registered[n]

(***************************************************************************)
(* _compute_fans.                                                          *)
(***************************************************************************)
RECURSIVE ProductOf(_, _, _)
\* shape[lo] * ... * shape[hi], indices counted from 1.
ProductOf(shape, lo, hi) ==
    IF lo > hi THEN 1 ELSE shape[lo] * ProductOf(shape, lo + 1, hi)

FansCalled == fret.kind # "not called"

\* C5: what _compute_fans returns, by rank and layout.
C5_FansByRank ==
    FansCalled =>
        LET n == Len(fshape)
            layout == BoundDataFormat(fformat)
            all == ProductOf(fshape, 1, n)
        IN  /\ n = 2 =>
                 fret = FansReturn(IntNum(fshape[1]), IntNum(fshape[2]))
            /\ n \in {3, 4, 5} /\ layout = "channels_first" =>
                 fret = FansReturn(IntNum(fshape[2] * ProductOf(fshape, 3, n)),
                                   IntNum(fshape[1] * ProductOf(fshape, 3, n)))
            /\ n \in {3, 4, 5} /\ layout = "channels_last" =>
                 fret = FansReturn(IntNum(fshape[n - 1] * ProductOf(fshape, 1, n - 2)),
                                   IntNum(fshape[n] * ProductOf(fshape, 1, n - 2)))
            /\ n \notin {2, 3, 4, 5} =>
                 fret = FansReturn(np_sqrt(all), np_sqrt(all))
            /\ fshape = <<4, 8>> =>
                 fret = FansReturn(IntNum(4), IntNum(8))
            /\ fshape = <<3, 3, 4, 8>> /\ layout = "channels_last" =>
                 fret = FansReturn(IntNum(36), IntNum(72))

C5_Witness ==
    /\ fshape = <<3, 3, 4, 8>>
    /\ fformat = Omitted
    /\ fret = FansReturn(IntNum(36), IntNum(72))

InvalidLayout == BoundDataFormat(fformat) \notin {"channels_first", "channels_last"}

\* C6 as stated: an unrecognised layout string makes the call fail with the
\* error that carries it, whatever the rank of the shape.
C6_InvalidLayoutFailsAtAnyRank ==
    FansCalled /\ InvalidLayout => fret = FansValueError(fformat)

\* C6, amended: an unrecognised layout string makes the call fail, with the
\* error that carries it and without a pair, when the rank is 3, 4 or 5; at
\* any other rank the layout is not looked at and the call returns a pair.
C6_InvalidLayoutFailsAtRank345 ==
    FansCalled /\ InvalidLayout =>
        /\ Len(fshape) \in {3, 4, 5} => fret = FansValueError(fformat)
        /\ Len(fshape) \notin {3, 4, 5} =>
              /\ fret.kind = "return"
              /\ fret.fan_in # NoNum
              /\ fret.fan_out # NoNum

C6_Witness ==
    /\ Len(fshape) = 4
    /\ fformat = "invalid-layout"
    /\ fret.kind = "ValueError"
    /\ fret.message = <<"Invalid data_format: ", "invalid-layout">>
    /\ fret.fan_in = NoNum

(***************************************************************************)
(* The estimator.                                                          *)
(***************************************************************************)
Ops == [i \in 1..Len(log) |-> log[i].op]

IsPrefix(s, t) == Len(s) <= Len(t) /\ s = SubSeq(t, 1, Len(s))

ViaGen == entry = "evaluate_lip_const_gen"

\* The first batch of the producer the generator form was called with.
FirstBatch == args.generator[1]

\* C7: the generator form pulls one batch and then is the direct form on
\* the model, the batch's first component, eps and seed it was given: the
\* forward passes, the printed line and the value returned are those of
\* evaluate_lip_const on that x, and nothing depends on the batch's second
\* and third components.
C7_GenDelegatesOnX ==
    ViaGen /\ lpc \notin {"send", "raised"} /\ Len(FirstBatch) = 3 =>
        LET x == FirstBatch[1] IN
        /\ pulls = 1
        /\ gen = Tail(args.generator)
        /\ frame = [model |-> args.model, x |-> x, eps |-> args.eps, seed |-> args.seed]
        /\ lpc = "done" =>
              /\ noise \in UniformDraws(x, args.eps)
              /\ SelectSeq(log, LAMBDA e : e.op = "predict")
                    = <<Event("predict", x), Event("predict", ArrAdd(x, noise))>>
              /\ result.returned
              /\ result.value \in LipCstOutcomes(x, ArrAdd(x, noise),
                                                  Predict(args.model, x),
                                                  Predict(args.model, ArrAdd(x, noise)))
              /\ stdout = <<FormatLine(result.value)>>

C7_Witness ==
    /\ ViaGen
    /\ lpc = "done"
    /\ Len(args.generator) = 2
    /\ gen = <<LaterBatch>>
    /\ FirstBatch[2] # FirstBatch[1]
    /\ FirstBatch[3] # FirstBatch[2]
    /\ frame.x = FirstBatch[1]
    /\ result.returned

RECURSIVE FlSumExact(_)
\* The sum of a sequence of integers, unrounded.
FlSumExact(s) == IF s = <<>> THEN 0 ELSE Head(s) + FlSumExact(Tail(s))

\* Every operation of the call is exact for the model y = k * x: no sum,
\* product or quotient has to be rounded.
ExactLinearCall(k, x, offs) ==
    /\ Representable(k * k)
    /\ \A i \in DOMAIN x :
          /\ \A j \in DOMAIN x[i] :
                /\ Representable(x[i][j] + offs[i][j])
                /\ Representable(k * x[i][j])
                /\ Representable(k * (x[i][j] + offs[i][j]))
                /\ Representable(k * offs[i][j])
                /\ Representable(offs[i][j] * offs[i][j])
                /\ Representable(k * offs[i][j] * k * offs[i][j])
          /\ Representable(FlSumExact([j \in DOMAIN x[i] |-> offs[i][j] * offs[i][j]]))
          /\ Representable(k * k * FlSumExact([j \in DOMAIN x[i] |-> offs[i][j] * offs[i][j]]))

C9_ShortBatchFailsBeforeAnyPass ==
    ViaGen /\ lpc # "send" /\ args.generator # <<>> /\ Len(FirstBatch) < 2 =>
        /\ lpc = "raised"
        /\ error = "ValueError"
        /\ pulls = 1
        /\ log = <<>>
        /\ stdout = <<>>
        /\ ~result.returned

C9_Witness ==
    /\ ViaGen
    /\ lpc = "raised"
    /\ args.generator # <<>>
    /\ Len(FirstBatch) = 1
    /\ error = "ValueError"
    /\ log = <<>>

\* C10: a call runs forward pass on x, the draw of x_var, forward pass on
\* x_var, the ratio, one progress line, the return, in this order; a call
\* that returns has made exactly two forward passes and printed exactly one
\* line, which reports the value returned, and no line is printed before
\* the second forward pass.
C10_StepsInOrder ==
    /\ IsPrefix(Ops, <<"predict", "random_uniform", "predict", "lip_cst", "print", "return">>)
    /\ Len(stdout) <= 1
    /\ stdout # <<>> =>
          /\ Len(SelectSeq(log, LAMBDA e : e.op = "predict")) = 2
          /\ stdout = <<FormatLine(lip_cst)>>
    /\ lpc = "done" =>
          /\ Ops = <<"predict", "random_uniform", "predict", "lip_cst", "print", "return">>
          /\ log[1].arr = frame.x
          /\ log[2].arr = noise
          /\ x_var = ArrAdd(frame.x, noise)
          /\ log[3].arr = x_var
          /\ stdout = <<FormatLine(lip_cst)>>
          /\ result = [returned |-> TRUE, value |-> lip_cst]
    /\ result.returned => lpc = "done"

C10_Witness ==
    /\ ViaGen
    /\ lpc = "done"
    /\ Len(log) = 6
    /\ Len(stdout) = 1
    /\ result.returned
    /\ result.value = 2

====
